---- MODULE Spec2Model ----
(***************************************************************************)
(* A model of deid.config.DeidRecipe (src/deid/config/__init__.py): the    *)
(* recipe store (its list of source files and its combined recipe), the    *)
(* load operation and the query facade.                                    *)
(*                                                                         *)
(* Python values are modelled as follows.                                  *)
(*   - None / a value      : None and Some(v)                              *)
(*   - str compared by case: a tuple of one-character strings              *)
(*   - an opaque str       : a TLA+ string                                 *)
(*   - list                : a sequence                                    *)
(*   - dict name -> list   : a sequence of [name, list] records with       *)
(*                           distinct names (insertion order is kept)      *)
(*   - a list object that two names may refer to: a cell of the heap       *)
(*     (callerList, ownList) and a reference to it (_files)                *)
(***************************************************************************)
EXTENDS Integers, Sequences, FiniteSets, TLC

VARIABLES
    callerList,  \* the list object the caller holds and may pass as `deid`
    ownList,     \* the list object _init_deid creates when it is not given a list
    _files,      \* self._files: a reference, "caller" or "own", to one of the two
    deid,        \* self.deid: None or Some(combined recipe)
    ctor,        \* the arguments of the last DeidRecipe(...) call
    handed,      \* the list _init_deid handed to load_combined_deid
    result       \* the outcome of the last call: what it returned or raised

vars == <<callerList, ownList, _files, deid, ctor, handed, result>>

\* ---------------------------------------------------------------- bounds

\* Longest list the caller builds before the first construction.
MaxSources == 1

\* Longest list of source files; construction and load stop growing it there.
MaxFiles == 2

\* ---------------------------------------------------------------- values

None == [some |-> FALSE]

Some(v) == [some |-> TRUE, val |-> v]

\* Python truthiness of `x or default` for an optional list or dict.
Truthy(x) == x.some /\ Len(x.val) > 0

\* ------------------------------------------------------------- str.upper

LowerCase == <<"a", "b", "c", "d", "e", "f", "g", "h", "i", "j", "k", "l", "m",
               "n", "o", "p", "q", "r", "s", "t", "u", "v", "w", "x", "y", "z">>

UpperCase == <<"A", "B", "C", "D", "E", "F", "G", "H", "I", "J", "K", "L", "M",
               "N", "O", "P", "Q", "R", "S", "T", "U", "V", "W", "X", "Y", "Z">>

upper_char(c) ==
    IF \E i \in DOMAIN LowerCase : LowerCase[i] = c
    THEN UpperCase[CHOOSE i \in DOMAIN LowerCase : LowerCase[i] = c]
    ELSE c

\* str.upper(): every cased character is replaced by its upper-case form.
upper(s) == [i \in 1..Len(s) |-> upper_char(s[i])]

\* ------------------------------------------------------- recipe documents

\* A str as the tuple of its characters.
s_REMOVE == <<"R", "E", "M", "O", "V", "E">>

s_Remove == <<"R", "e", "m", "o", "v", "e">>

s_KEEP == <<"K", "E", "E", "P">>

s_Keep == <<"K", "e", "e", "p">>

s_keep == <<"k", "e", "e", "p">>

s_PatientName == <<"P", "a", "t", "i", "e", "n", "t", "N", "a", "m", "e">>

s_patientname == <<"p", "a", "t", "i", "e", "n", "t", "n", "a", "m", "e">>

s_StudyDate == <<"S", "t", "u", "d", "y", "D", "a", "t", "e">>

\* The sections that map a name to a list.
NamedSections == {"filter", "values", "fields"}

\* The source identifiers used: two that resolve and one that does not.
Ids == {"dicom", "a.deid", "nothing"}

\* The built-in base recipe, as parsed.
DicomRecipe ==
    [format |-> Some("dicom"),
     filter |-> Some(<<[name |-> "blacklist", list |-> <<"f0">>],
                       [name |-> "graylist", list |-> <<"g0">>]>>),
     values |-> None,
     fields |-> None,
     header |-> Some(<<[action |-> s_REMOVE, field |-> s_PatientName]>>)]

\* A user recipe, as parsed: it redefines the filter blacklist, has an empty
\* values section and a header whose entries differ in case.
UserRecipe ==
    [format |-> Some("dicom"),
     filter |-> Some(<<[name |-> "blacklist", list |-> <<"f1">>]>>),
     values |-> Some(<<>>),
     fields |-> Some(<<[name |-> "ids", list |-> <<"PatientID">>]>>),
     header |-> Some(<<[action |-> s_Keep, field |-> s_StudyDate],
                       [action |-> s_REMOVE, field |-> s_patientname],
                       [action |-> s_KEEP, field |-> s_PatientName]>>)]

\* get_deid: the identifier when it names a recipe, None otherwise.
get_deid(tag) == IF tag \in {"dicom", "a.deid"} THEN Some(tag) ELSE None

\* The loader: the parsed recipe of an identifier, None when it names none.
resolveSource(tag) ==
    IF ~get_deid(tag).some THEN None
    ELSE IF tag = "dicom" THEN Some(DicomRecipe) ELSE Some(UserRecipe)

\* dict.get(name) on a recipe: the section, None when it is not defined.
dict_get(doc, name) ==
    CASE name = "format" -> doc.format
      [] name = "filter" -> doc.filter
      [] name = "values" -> doc.values
      [] name = "fields" -> doc.fields
      [] name = "header" -> doc.header
      [] OTHER -> None

\* The keys of a dict name -> list, in insertion order.
keys(m) == [i \in 1..Len(m) |-> m[i].name]

\* m.get(name, []) on a dict name -> list.
map_get(m, name) ==
    IF \E i \in 1..Len(m) : m[i].name = name
    THEN m[CHOOSE i \in 1..Len(m) : m[i].name = name].list
    ELSE <<>>

\* m[name] = list: replaces the list of a name already there, else adds it.
map_set(m, name, list) ==
    IF \E i \in 1..Len(m) : m[i].name = name
    THEN [i \in 1..Len(m) |-> IF m[i].name = name
                              THEN [name |-> name, list |-> list] ELSE m[i]]
    ELSE Append(m, [name |-> name, list |-> list])

\* ---------------------------------------------------------------- combiner

RECURSIVE merge_named(_, _)
\* A named-list section of the later recipe replaces, name by name, the
\* lists of the earlier one.
merge_named(earlier, later) ==
    IF Len(later) = 0 THEN earlier
    ELSE merge_named(map_set(earlier, later[1].name, later[1].list), Tail(later))

\* One section of two recipes combined: the later format wins, named lists
\* are replaced by name, header actions are concatenated.
merge_section(name, earlier, later) ==
    IF ~later.some THEN earlier
    ELSE IF ~earlier.some THEN later
    ELSE IF name = "format" THEN later
    ELSE IF name = "header" THEN Some(earlier.val \o later.val)
    ELSE Some(merge_named(earlier.val, later.val))

\* Two optional recipes combined; an absent one contributes nothing.
merge(earlier, later) ==
    IF ~later.some THEN earlier
    ELSE IF ~earlier.some THEN later
    ELSE Some([format |-> merge_section("format", earlier.val.format, later.val.format),
               filter |-> merge_section("filter", earlier.val.filter, later.val.filter),
               values |-> merge_section("values", earlier.val.values, later.val.values),
               fields |-> merge_section("fields", earlier.val.fields, later.val.fields),
               header |-> merge_section("header", earlier.val.header, later.val.header)])

RECURSIVE combine_onto(_, _)
combine_onto(acc, docs) ==
    IF Len(docs) = 0 THEN acc
    ELSE combine_onto(merge(acc, Head(docs)), Tail(docs))

\* combine(documents): the recipes merged in sequence order; None when there
\* is nothing to merge.
combine(docs) == combine_onto(None, docs)

\* An element of the list given to load_combined_deid: an identifier still
\* to resolve, or a recipe already loaded.
Src(tag) == [kind |-> "id", id |-> tag]

Loaded(doc) == [kind |-> "doc", doc |-> doc]

\* load_combined_deid(deids): resolves every element and combines the recipes
\* in list order; elements that resolve to nothing are skipped.
load_combined_deid(deids) ==
    combine([i \in 1..Len(deids) |->
                IF deids[i].kind = "id" THEN resolveSource(deids[i].id)
                ELSE deids[i].doc])

\* A list of identifiers as load_combined_deid receives it.
Srcs(tags) == [i \in 1..Len(tags) |-> Src(tags[i])]

\* ------------------------------------------------------------------ store

\* The list object self._files refers to.
Files == IF _files = "caller" THEN callerList ELSE ownList

\* What a call returned, or the exception it raised.
Return(v) == [raised |-> FALSE, value |-> v]

Raise(e) == [raised |-> TRUE, value |-> e]

\* The `deid` argument of DeidRecipe(...): omitted, one identifier, or the
\* caller's list object.
NoDeid == [kind |-> "none", id |-> ""]

OneDeid(tag) == [kind |-> "str", id |-> tag]

ListDeid == [kind |-> "list", id |-> ""]

DeidArgs == {NoDeid, ListDeid} \cup {OneDeid(tag) : tag \in Ids}

\* The values of default_base used: one that resolves and one that does not.
Bases == {"dicom", "nothing"}

\* _init_deid, run when the caller's list object holds cl: the lists and the
\* fields of the recipe afterwards. A list that is given is used, and
\* appended to, in place; otherwise a new list is made.
_init_deid(cl, arg, base, default_base) ==
    LET given == arg.kind = "list"
        start == IF arg.kind = "none" THEN <<>>
                 ELSE IF arg.kind = "str" THEN <<arg.id>>
                 ELSE cl
        final == IF base THEN Append(start, default_base) ELSE start
    IN  [callerList |-> IF given THEN final ELSE cl,
         ownList    |-> IF given THEN <<>> ELSE final,
         files      |-> IF given THEN "caller" ELSE "own",
         handed     |-> final,
         deid       |-> load_combined_deid(Srcs(final))]

\* DeidRecipe.__init__ without its first statement: base is passed on as given.
DeidRecipe_init_keeps_base(cl, arg, base, default_base) ==
    _init_deid(cl, arg, base, default_base)

\* DeidRecipe.__init__: without a deid the default base is used.
DeidRecipe_init(cl, arg, base, default_base) ==
    _init_deid(cl, arg, IF arg.kind = "none" THEN TRUE ELSE base, default_base)

\* The arguments of the construction, the content the caller's list had when
\* it was first passed, what that first construction handed to the combiner
\* and got back, and whether the recipe was since constructed again.
CtorArgs(cl, arg, base, default_base, r, again) ==
    [deid |-> arg, base |-> base, default_base |-> default_base, list |-> cl,
     first_handed |-> r.handed, first_deid |-> r.deid, again |-> again]

\* ---------------------------------------------------------------- queries

\* _get_section on self.deid = d.
_get_section(d, name) == IF d.some THEN dict_get(d.val, name) ELSE None

get_format(d) == _get_section(d, "format")

\* _get_named_section: the section, or with a name the list of that name.
_get_named_section(d, section_name, name) ==
    LET section == _get_section(d, section_name)
    IN  IF name.some /\ section.some
        THEN Some(map_get(section.val, name.val))
        ELSE section

get_filters(d, name) == _get_named_section(d, "filter", name)

get_values_lists(d, name) == _get_named_section(d, "values", name)

get_fields_lists(d, name) == _get_named_section(d, "fields", name)

\* x["action"].upper() == action, action upper-cased before the loop.
ActionMatches(x, action) == upper(x.action) = upper(action)

FieldMatches(x, field) == upper(x.field) = upper(field)

\* _get_actions with the stored action and field compared as they are
\* written, only the arguments upper-cased.
_get_actions_stored_case(d, action, field, section) ==
    LET found   == _get_section(d, section)
        header0 == IF Truthy(found) THEN found.val ELSE <<>>
        header1 == IF action.some
                   THEN SelectSeq(header0, LAMBDA x : x.action = upper(action.val))
                   ELSE header0
        header2 == IF field.some
                   THEN SelectSeq(header1, LAMBDA x : x.field = upper(field.val))
                   ELSE header1
    IN  header2

\* _get_actions: the header, filtered by action and then by field.
_get_actions(d, action, field, section) ==
    LET found   == _get_section(d, section)
        header0 == IF Truthy(found) THEN found.val ELSE <<>>
        header1 == IF action.some
                   THEN SelectSeq(header0, LAMBDA x : ActionMatches(x, action.val))
                   ELSE header0
        header2 == IF field.some
                   THEN SelectSeq(header1, LAMBDA x : FieldMatches(x, field.val))
                   ELSE header1
    IN  header2

get_actions(d, action, field) == _get_actions(d, action, field, "header")

\* _has_list_content: self.deid.get(name, []) fails on None, which has no
\* attribute get.
_has_list_content(d, name) ==
    IF ~d.some THEN Raise("AttributeError")
    ELSE LET found == dict_get(d.val, name)
         IN  Return(Len(IF found.some THEN found.val ELSE <<>>) > 0)

has_fields_lists(d) == _has_list_content(d, "fields")

has_values_lists(d) == _has_list_content(d, "values")

has_actions(d) == _has_list_content(d, "header")

\* listof: the keys of a section; a non-empty header is a list, which has
\* no attribute keys.
listof(d, section) ==
    LET found == _get_section(d, section)
    IN  IF ~Truthy(found) THEN Return(<<>>)
        ELSE IF section \in NamedSections THEN Return(keys(found.val))
        ELSE Raise("AttributeError")

ls_filters(d) == listof(d, "filter")

ls_valuelists(d) == listof(d, "values")

ls_fieldlists(d) == listof(d, "fields")

\* The arguments the queries are called with.
NameArgs == {None, Some("blacklist"), Some("ids")}

ActionArgs == {None, Some(s_keep), Some(s_KEEP), Some(s_Remove)}

FieldArgs == {None, Some(s_patientname), Some(s_StudyDate)}

ListofArgs == NamedSections \cup {"header"}

\* ---------------------------------------------------------------- actions

RECURSIVE SeqsUpTo(_)
\* The lists of identifiers of length at most n.
SeqsUpTo(n) ==
    IF n = 0 THEN {<<>>}
    ELSE LET shorter == SeqsUpTo(n - 1)
         IN  shorter \cup {Append(q, tag) : q \in shorter, tag \in Ids}

Called(op, args, outcome) ==
    [op |-> op, args |-> args, raised |-> outcome.raised, value |-> outcome.value]

\* The state after DeidRecipe(deid, base, default_base). A caller that passes
\* a list holds any list of identifiers; one that passes none holds an empty
\* one.
Init ==
    \E arg \in DeidArgs, base \in BOOLEAN, db \in Bases :
        \E cl \in IF arg.kind = "list" THEN SeqsUpTo(MaxSources) ELSE {<<>>} :
            LET r == DeidRecipe_init(cl, arg, base, db)
            IN  /\ callerList = r.callerList
                /\ ownList = r.ownList
                /\ _files = r.files
                /\ deid = r.deid
                /\ handed = r.handed
                /\ ctor = CtorArgs(cl, arg, base, db, r, FALSE)
                /\ result = Called("DeidRecipe", <<>>, Return(None))

\* DeidRecipe(deid, base, default_base) called again with the same arguments,
\* the same list object among them: a second recipe, which replaces the one
\* held.
DeidRecipe ==
    LET r == DeidRecipe_init(callerList, ctor.deid, ctor.base, ctor.default_base)
    IN  /\ Len(r.handed) <= MaxFiles
        /\ callerList' = r.callerList
        /\ ownList' = r.ownList
        /\ _files' = r.files
        /\ deid' = r.deid
        /\ handed' = r.handed
        /\ ctor' = [ctor EXCEPT !.again = TRUE]
        /\ result' = Called("DeidRecipe", <<>>, Return(None))

\* load without the test `deid is not None`: what get_deid returned, here the
\* identifier itself, is appended whether or not it resolved.
load_unconditional(tag) ==
    /\ Len(Files) < MaxFiles
    /\ callerList' = IF _files = "caller" THEN Append(callerList, tag) ELSE callerList
    /\ ownList' = IF _files = "own" THEN Append(ownList, tag) ELSE ownList
    /\ UNCHANGED <<_files, deid, ctor, handed>>
    /\ result' = Called("load", tag, Raise("AttributeError"))

\* load(deid): an identifier that does not resolve changes nothing. One that
\* resolves is appended to self._files; the next statement reads self.files,
\* an attribute no statement of the class assigns, so the call ends there
\* with AttributeError and self.deid keeps its value.
load(tag) ==
    LET found == get_deid(tag)
    IN  IF ~found.some
        THEN /\ UNCHANGED <<callerList, ownList, _files, deid, ctor, handed>>
             /\ result' = Called("load", tag, Return(None))
        ELSE /\ Len(Files) < MaxFiles
             /\ callerList' = IF _files = "caller"
                              THEN Append(callerList, found.val) ELSE callerList
             /\ ownList' = IF _files = "own"
                           THEN Append(ownList, found.val) ELSE ownList
             /\ UNCHANGED <<_files, deid, ctor, handed>>
             /\ result' = Called("load", tag, Raise("AttributeError"))

Query(op, args, outcome) ==
    /\ result' = Called(op, args, outcome)
    /\ UNCHANGED <<callerList, ownList, _files, deid, ctor, handed>>

GetFormat == Query("get_format", <<>>, Return(get_format(deid)))

GetFilters(name) == Query("get_filters", name, Return(get_filters(deid, name)))

GetValuesLists(name) ==
    Query("get_values_lists", name, Return(get_values_lists(deid, name)))

GetFieldsLists(name) ==
    Query("get_fields_lists", name, Return(get_fields_lists(deid, name)))

GetActions(action, field) ==
    Query("get_actions", <<action, field>>, Return(get_actions(deid, action, field)))

HasFieldsLists == Query("has_fields_lists", <<>>, has_fields_lists(deid))

HasValuesLists == Query("has_values_lists", <<>>, has_values_lists(deid))

HasActions == Query("has_actions", <<>>, has_actions(deid))

ListOf(section) == Query("listof", section, listof(deid, section))

LsFilters == Query("ls_filters", <<>>, ls_filters(deid))

LsValueLists == Query("ls_valuelists", <<>>, ls_valuelists(deid))

LsFieldLists == Query("ls_fieldlists", <<>>, ls_fieldlists(deid))

Next ==
    \/ DeidRecipe
    \/ \E tag \in Ids : load(tag)
    \/ GetFormat
    \/ \E name \in NameArgs : GetFilters(name)
    \/ \E name \in NameArgs : GetValuesLists(name)
    \/ \E name \in NameArgs : GetFieldsLists(name)
    \/ \E action \in ActionArgs, field \in FieldArgs : GetActions(action, field)
    \/ HasFieldsLists
    \/ HasValuesLists
    \/ HasActions
    \/ \E section \in ListofArgs : ListOf(section)
    \/ LsFilters
    \/ LsValueLists
    \/ LsFieldLists

Spec == Init /\ [][Next]_vars

\* ----------------------------------------------------------------- claims

\* The step is a call of load: load is the only call that leaves "load" in
\* result, and a load that changes nothing at all is no step.
LoadStep == result'.op = "load"

\* What load is to leave in self.deid: the recipe held combined with the new
\* source, the new source last.
Reloaded(tag) == load_combined_deid(<<Loaded(deid), Src(tag)>>)

\* C1: load(identifier) of an identifier that resolves replaces the combined
\* recipe by combine([previous combined recipe, new recipe]).
C1_LoadCombinesNewSourceLast ==
    [][(LoadStep /\ get_deid(result'.args).some)
           => deid' = Reloaded(result'.args)]_vars

QueryOps == {"get_format", "get_filters", "get_values_lists", "get_fields_lists",
             "get_actions", "has_fields_lists", "has_values_lists", "has_actions",
             "listof", "ls_filters", "ls_valuelists", "ls_fieldlists"}

\* The empty, absent or false result of a query.
EmptyResult(op, value) ==
    IF op \in {"get_format", "get_filters", "get_values_lists", "get_fields_lists"}
    THEN value = None
    ELSE IF op \in {"has_fields_lists", "has_values_lists", "has_actions"}
    THEN value = FALSE
    ELSE value = <<>>

\* C2: with no recipe loaded every query returns an empty, absent or false
\* result and none raises.
C2_QueriesDegradeWithoutRecipe ==
    (~deid.some /\ result.op \in QueryOps)
        => (~result.raised /\ EmptyResult(result.op, result.value))

\* The explicit sources of the first construction, in the order given.
Explicit ==
    IF ctor.deid.kind = "list" THEN ctor.list
    ELSE IF ctor.deid.kind = "str" THEN <<ctor.deid.id>>
    ELSE <<>>

\* C3: constructed with base=True and explicit sources, the list handed to
\* the combiner has default_base first and the explicit sources after it.
C3_BaseBeforeExplicitSources ==
    (ctor.base /\ ~ctor.again /\ Len(Explicit) > 0)
        => handed = <<ctor.default_base>> \o Explicit

\* Two strs equal but for the case of their letters.
SameIgnoringCase(s, t) ==
    /\ Len(s) = Len(t)
    /\ \A i \in 1..Len(s) :
          \/ s[i] = t[i]
          \/ \E k \in DOMAIN LowerCase : {s[i], t[i]} = {LowerCase[k], UpperCase[k]}

\* An entry passes the filters that are given.
Wanted(x, action, field) ==
    /\ action.some => SameIgnoringCase(x.action, action.val)
    /\ field.some => SameIgnoringCase(x.field, field.val)

RECURSIVE Matching(_, _, _)
\* The entries of a header that pass, in their order.
Matching(header, action, field) ==
    IF Len(header) = 0 THEN <<>>
    ELSE (IF Wanted(header[1], action, field) THEN <<header[1]>> ELSE <<>>)
             \o Matching(Tail(header), action, field)

\* The header section of a recipe, the empty list when there is none.
StoredHeader(d) == IF d.some /\ d.val.header.some THEN d.val.header.val ELSE <<>>

\* C4: get_actions(action, field) returns, in their order, exactly the header
\* entries whose action and field equal the given ones ignoring case, the
\* whole header when neither is given, and leaves the recipe as it was.
C4_GetActionsFiltersIgnoringCase ==
    [][result'.op = "get_actions"
           => /\ ~result'.raised
              /\ result'.value = Matching(StoredHeader(deid), result'.args[1],
                                          result'.args[2])
              /\ deid' = deid]_vars

\* C4 witness: both filters given in a case other than the stored one, and
\* one entry of a longer header selected.
C4_Witness ==
    /\ result.op = "get_actions"
    /\ result.args = <<Some(s_keep), Some(s_patientname)>>
    /\ result.value = <<[action |-> s_KEEP, field |-> s_PatientName]>>
    /\ Len(StoredHeader(deid)) > 1

\* A section returned by a get_* call without a name has content.
NonEmpty(section) == section.some /\ Len(section.val) > 0

\* C5: has_actions, has_fields_lists and has_values_lists are true exactly
\* when get_actions(), get_fields_lists() and get_values_lists() are
\* non-empty.
C5_HasAgreesWithGet ==
    /\ result.op = "has_actions"
           => (~result.raised
               /\ result.value = (Len(get_actions(deid, None, None)) > 0))
    /\ result.op = "has_fields_lists"
           => (~result.raised
               /\ result.value = NonEmpty(get_fields_lists(deid, None)))
    /\ result.op = "has_values_lists"
           => (~result.raised
               /\ result.value = NonEmpty(get_values_lists(deid, None)))

\* C6: load of an identifier that does not resolve raises nothing and leaves
\* the list of sources and the combined recipe as they were.
C6_LoadMissIsNoOp ==
    [][(LoadStep /\ ~get_deid(result'.args).some)
           => /\ ~result'.raised
              /\ Files' = Files
              /\ callerList' = callerList
              /\ deid' = deid]_vars

\* C6 witness: a load of an identifier that does not resolve, on a recipe
\* that holds sources.
C6_Witness ==
    /\ result.op = "load"
    /\ ~get_deid(result.args).some
    /\ Len(Files) > 0
    /\ deid.some

\* C7: constructed without a deid, whatever base is, the sources are the
\* default base alone and the combined recipe is the recipe of that base.
C7_NoDeidUsesDefaultBase ==
    (ctor.deid.kind = "none" /\ result.op = "DeidRecipe")
        => /\ Files = <<ctor.default_base>>
           /\ handed = <<ctor.default_base>>
           /\ deid = resolveSource(ctor.default_base)

\* C7 witness: constructed with no deid and base=False, the base loaded.
C7_Witness ==
    /\ ctor.deid.kind = "none"
    /\ ~ctor.base
    /\ result.op = "DeidRecipe"
    /\ deid = Some(DicomRecipe)

\* C8: a load never ends half done and never fails: either the list of
\* sources and the combined recipe both take the new source, or neither
\* changes, and nothing is raised.
C8_LoadIsAllOrNothing ==
    [][LoadStep
           => /\ ~result'.raised
              /\ \/ Files' = Files /\ deid' = deid
                 \/ /\ Files' = Append(Files, result'.args)
                    /\ deid' = Reloaded(result'.args)]_vars

\* C9: no identifier occurs twice in the list of sources.
C9_SourcesAreDeduplicated ==
    \A i, j \in 1..Len(Files) : Files[i] = Files[j] => i = j

\* C10: the caller's list is as the caller made it, and a second recipe
\* constructed from it gets the sources and the combined recipe of the first.
C10_CallerListIsNotShared ==
    /\ callerList = ctor.list
    /\ (ctor.again /\ result.op = "DeidRecipe")
           => (handed = ctor.first_handed /\ deid = ctor.first_deid)

====
